---------------------------- MODULE Spec2Model ----------------------------
(***************************************************************************)
(* A model of the NamesMap class of notebooks/modules/cleaning/names.py:   *)
(* the primitive-to-normalized names map, the remapping index, the chained *)
(* dereference _getRef with its loopback detection, and the operations     *)
(* built on it.                                                            *)
(*                                                                         *)
(* A Python dict is a TLA+ function on its set of keys: two dicts are     *)
(* equal when they hold the same items, as in Python.  The order in which  *)
(* a dict is iterated is left open: what the code builds by iterating      *)
(* (the list of duplicated keys, the lists of the inconsistency report) is *)
(* the set of its elements, and where the first failing item decides the   *)
(* outcome (getMap) every failing item may be the first.                   *)
(***************************************************************************)
EXTENDS Integers, Sequences, FiniteSets, TLC

VARIABLES
    map_prim_norm,      \* self._map_prim_norm    : primitive -> normalized
    remappingIndex,     \* self._remappingIndex   : None, or a dict
    normalizationFunc,  \* self._normalizationFunc: "None", "f" or "g"
    origin,             \* how the instance was built: "names" or "loaded"
    op,                 \* the method that has just been called ("idle": none)
    arg,                \* its arguments
    ret,                \* what it returned
    exc,                \* the exception it raised
    warned,             \* the warnings it issued
    shared,             \* self._remappingIndex is a dict its caller holds too
    file                \* the record write_toJson has written

vars == <<map_prim_norm, remappingIndex, normalizationFunc, origin,
          op, arg, ret, exc, warned, shared, file>>

---------------------------------------------------------------------------
(* The universe of the model. *)

\* Normalized names.
Names == {"a", "b", "c"}

\* Primitive names.
Prims == {"p1", "p2"}

\* The longest list of (s,t) tuples handed to remap.
MaxBatch == 2

\* Two normalization functions (any pure function str -> str may be
\* supplied; `normalize` is the one the module ships).
normalize(fn, p) ==
    IF fn = "f" THEN (IF p = "p1" THEN "a" ELSE "b")
                ELSE (IF p = "p1" THEN "b" ELSE "c")

---------------------------------------------------------------------------
(* Python values. *)

\* self._remappingIndex is None, or a dict.
NoneIndex   == [none |-> TRUE,  items |-> <<>>]
Dict(items) == [none |-> FALSE, items |-> items]

\* What a call returned: nothing at all (it raised), None, or a value.
NoValue      == [kind |-> "novalue"]
PyNone       == [kind |-> "None"]
Value(k, v)  == [kind |-> k, val |-> v]

\* What a call raised.
NoExc          == [type |-> "none", args |-> <<>>]
Raised(t, as)  == [type |-> t, args |-> as]

InSeq(x, s) == \E i \in 1..Len(s) : s[i] = x

\* d[k] = v
SetItem(d, k, v) == [x \in DOMAIN d \cup {k} |-> IF x = k THEN v ELSE d[x]]

\* d.pop(k), for a key that is there: the dict that is left.
Pop(d, k) == [x \in DOMAIN d \ {k} |-> d[x]]

\* d.update(e)
Update(d, e) == [x \in DOMAIN d \cup DOMAIN e |-> IF x \in DOMAIN e THEN e[x] ELSE d[x]]

\* The dicts over Names: what a persisted record may hold as its index.
AllDicts == UNION {[S -> Names] : S \in SUBSET Names}

\* The names maps a persisted record may hold: none of the primitives, or
\* all of them under any names.
AllMaps == {<<>>} \cup [Prims -> Names]

\* The lists of (s,t) tuples handed to remap.
Batches == UNION {[1..n -> Names \X Names] : n \in 0..MaxBatch}

---------------------------------------------------------------------------
(* _getRef *)

\* The while loop of _getRef, from the state (n, chain).
RECURSIVE getRefLoop(_, _, _, _)
getRefLoop(d, start, n, chain) ==
    IF n \notin DOMAIN d
    THEN [exc |-> NoExc, val |-> n, chain |-> chain]
    ELSE LET chain1 == Append(chain, n)
             n1     == d[n]
         IN  IF InSeq(n1, chain1)
             THEN [exc   |-> Raised("RuntimeError",
                              <<"Loopback detected", start, Append(chain1, n1)>>),
                   val   |-> n1,
                   chain |-> Append(chain1, n1)]
             ELSE getRefLoop(d, start, n1, chain1)

\* _getRef following one reference only, as a plain lookup would.
_getRef_oneHop(idx, n) ==
    IF idx.none
    THEN [exc |-> Raised("AttributeError", <<"keys">>), val |-> n, chain |-> <<>>]
    ELSE IF n \in DOMAIN idx.items
         THEN [exc |-> NoExc, val |-> idx.items[n], chain |-> <<n>>]
         ELSE [exc |-> NoExc, val |-> n, chain |-> <<>>]

\* _getRef leaving the loop at a loopback instead of raising: it returns
\* the name it found again.
_getRef_silent(idx, n) ==
    IF idx.none
    THEN [exc |-> Raised("AttributeError", <<"keys">>), val |-> n, chain |-> <<>>]
    ELSE LET r == getRefLoop(idx.items, n, n, <<>>)
         IN  [exc |-> NoExc, val |-> r.val, chain |-> r.chain]

\* _getRef(n) on the index idx: the exception raised (or NoExc), the value
\* of n and the local chain when the method is left.
_getRef(idx, n) ==
    IF idx.none
    THEN [exc |-> Raised("AttributeError", <<"keys">>), val |-> n, chain |-> <<>>]
    ELSE getRefLoop(idx.items, n, n, <<>>)

---------------------------------------------------------------------------
(* The inconsistency report *)

\* _get_loopback_inconsistencies(): for every key of the index whose
\* _getRef raises, the (message, key, chain) the RuntimeError carries; None
\* when there is none.  On an index that is None, .keys() raises.
_get_loopback_inconsistencies(idx) ==
    IF idx.none
    THEN [exc |-> Raised("AttributeError", <<"keys">>), val |-> NoValue]
    ELSE LET raised == {_getRef(idx, k).exc : k \in DOMAIN idx.items}
             found  == {e.args : e \in {x \in raised : x.type = "RuntimeError"}}
         IN  [exc |-> NoExc,
              val |-> IF found = {} THEN PyNone ELSE Value("dict", found)]

\* getInconsistencies(prettyPrint): None when no check found anything;
\* otherwise the text with one line per (message, key, chain), or the dict.
getInconsistencies(idx, prettyPrint) ==
    LET lb == _get_loopback_inconsistencies(idx) IN
    IF lb.exc # NoExc THEN lb
    ELSE IF lb.val # PyNone
         THEN [exc |-> NoExc,
               val |-> IF prettyPrint THEN Value("str", lb.val.val)
                                      ELSE Value("dict", lb.val.val)]
         ELSE [exc |-> NoExc, val |-> PyNone]

---------------------------------------------------------------------------
(* getMap *)

\* getMap replacing a value by what it maps to in the index, one reference
\* deep, as the first NamesMap.getMap (modules/NamesMap.py) does.
getMap_oneHop(m, idx, remap) ==
    IF remap /\ ~idx.none
    THEN {[exc |-> NoExc,
           val |-> Value("dict", [s \in DOMAIN m |->
                       IF m[s] \in DOMAIN idx.items THEN idx.items[m[s]] ELSE m[s]])]}
    ELSE {[exc |-> NoExc, val |-> Value("dict", m)]}

\* getMap skipping the values whose _getRef raises: it returns the map with
\* those left as they are.
getMap_partial(m, idx, remap) ==
    IF remap /\ ~idx.none
    THEN {[exc |-> NoExc,
           val |-> Value("dict", [s \in DOMAIN m |->
                       IF _getRef(idx, m[s]).exc = NoExc
                       THEN _getRef(idx, m[s]).val ELSE m[s]])]}
    ELSE {[exc |-> NoExc, val |-> Value("dict", m)]}

\* getMap(remap): the outcomes the call can have.  A copy of the names map,
\* each value de-referenced when remap is set and there is an index; the
\* first _getRef that raises ends the call with its exception.
getMap(m, idx, remap) ==
    IF remap /\ ~idx.none
    THEN LET failing == {s \in DOMAIN m : _getRef(idx, m[s]).exc # NoExc} IN
         IF failing = {}
         THEN {[exc |-> NoExc,
                val |-> Value("dict", [s \in DOMAIN m |-> _getRef(idx, m[s]).val])]}
         ELSE {[exc |-> _getRef(idx, m[s]).exc, val |-> NoValue] : s \in failing}
    ELSE {[exc |-> NoExc, val |-> Value("dict", m)]}

---------------------------------------------------------------------------
(* remap *)

\* The keys that come more than once in the list of tuples.
duplicatedKeys(remaps) ==
    {remaps[i][1] : i \in {x \in 1..Len(remaps) :
                              \E y \in 1..Len(remaps) :
                                  x # y /\ remaps[x][1] = remaps[y][1]}}

\* The loop of remap keeping the first value a key gets, and the value a
\* key already has.
RECURSIVE applyRemaps_firstWins(_, _)
applyRemaps_firstWins(d, remaps) ==
    IF remaps = <<>> THEN d
    ELSE applyRemaps_firstWins(
             IF Head(remaps)[1] \in DOMAIN d THEN d
             ELSE SetItem(d, Head(remaps)[1], Head(remaps)[2]),
             Tail(remaps))

\* for s,t in remaps: self._remappingIndex[s] = t
RECURSIVE applyRemaps(_, _)
applyRemaps(d, remaps) ==
    IF remaps = <<>> THEN d
    ELSE applyRemaps(SetItem(d, Head(remaps)[1], Head(remaps)[2]), Tail(remaps))

\* _remove_selfloops removing nothing.
_remove_selfloops_none(d) == d

\* _remove_selfloops()
_remove_selfloops(d) ==
    [k \in {x \in DOMAIN d : d[x] # x} |-> d[k]]

\* remap running the consistency check before it removes the self-loops.
remap_checkBeforeSelfloops(idx, remaps, fromScratch) ==
    LET dups == duplicatedKeys(remaps)
        idx1 == IF fromScratch THEN NoneIndex ELSE idx
        d    == IF idx1.none THEN <<>> ELSE idx1.items
        d2   == applyRemaps(d, remaps)
        r    == getInconsistencies(Dict(d2), TRUE)
    IN  [warned |-> IF dups # {} THEN {dups} ELSE {},
         idx    |-> Dict(_remove_selfloops(d2)),
         exc    |-> r.exc,
         val    |-> r.val]

\* remap(remaps, fromScratch): the warnings issued, the index left, and what
\* getInconsistencies() says of that index, which is what remap returns.
remap(idx, remaps, fromScratch) ==
    LET dups == duplicatedKeys(remaps)
        idx1 == IF fromScratch THEN NoneIndex ELSE idx
        d    == IF idx1.none THEN <<>> ELSE idx1.items
        idx2 == Dict(_remove_selfloops(applyRemaps(d, remaps)))
        r    == getInconsistencies(idx2, TRUE)
    IN  [warned |-> IF dups # {} THEN {dups} ELSE {},
         idx    |-> idx2,
         exc    |-> r.exc,
         val    |-> r.val]

---------------------------------------------------------------------------
(* setEndpoint *)

\* setEndpoint removing the entry of the name key points at, not the entry
\* of key.
setEndpoint_popTarget(idx, key) ==
    IF idx.none
    THEN [exc |-> Raised("AttributeError", <<"pop">>), val |-> NoValue, idx |-> idx]
    ELSE IF key \notin DOMAIN idx.items
    THEN [exc |-> Raised("KeyError", <<key>>), val |-> NoValue, idx |-> idx]
    ELSE IF idx.items[key] \notin DOMAIN idx.items
    THEN [exc |-> Raised("KeyError", <<idx.items[key]>>), val |-> NoValue, idx |-> idx]
    ELSE [exc |-> NoExc, val |-> Value("str", idx.items[key]),
          idx |-> Dict(Pop(idx.items, idx.items[key]))]

\* setEndpoint reading the entry and leaving it where it is (get for pop).
setEndpoint_get(idx, key) ==
    IF idx.none
    THEN [exc |-> Raised("AttributeError", <<"get">>), val |-> NoValue, idx |-> idx]
    ELSE IF key \notin DOMAIN idx.items
    THEN [exc |-> NoExc, val |-> PyNone, idx |-> idx]
    ELSE [exc |-> NoExc, val |-> Value("str", idx.items[key]), idx |-> idx]

\* setEndpoint(key): self._remappingIndex.pop(key).  The exception raised,
\* the value returned and the index left.
setEndpoint(idx, key) ==
    IF idx.none
    THEN [exc |-> Raised("AttributeError", <<"pop">>), val |-> NoValue, idx |-> idx]
    ELSE IF key \notin DOMAIN idx.items
    THEN [exc |-> Raised("KeyError", <<key>>), val |-> NoValue, idx |-> idx]
    ELSE [exc |-> NoExc, val |-> Value("str", idx.items[key]),
          idx |-> Dict(Pop(idx.items, key))]

---------------------------------------------------------------------------
(* addNames *)

\* addNames writing every given name, whatever updateExistingKeys says.
addNames_alwaysUpdate(m, own, names, fn, updateExistingKeys) ==
    LET normFunc == IF fn = "None" THEN own ELSE fn IN
    IF normFunc = "None" /\ names # {}
    THEN [exc |-> Raised("TypeError", <<"NoneType">>), map |-> m]
    ELSE [exc |-> NoExc, map |-> Update(m, [n \in names |-> normalize(normFunc, n)])]

\* addNames(names, normalizationFunc, updateExistingKeys): the exception
\* raised and the names map left.  normFunc is called once per name, so a
\* normFunc of None raises only when there is a name.
addNames(m, own, names, fn, updateExistingKeys) ==
    LET normFunc == IF fn = "None" THEN own ELSE fn IN
    IF normFunc = "None" /\ names # {}
    THEN [exc |-> Raised("TypeError", <<"NoneType">>), map |-> m]
    ELSE LET d  == [n \in names |-> normalize(normFunc, n)]
             d1 == IF updateExistingKeys THEN d
                   ELSE [k \in DOMAIN d \ DOMAIN m |-> d[k]]
         IN  [exc |-> NoExc, map |-> Update(m, d1)]

---------------------------------------------------------------------------
(* write_toJson and read_NamesMap_fromJson *)

\* What json.dump writes for a dict of strings, a JSON object: its
\* members, one (key, value) pair per key (sort_keys fixes their order in
\* the text), and for None: null.
jsonObject(d) == [type |-> "object", members |-> {<<k, d[k]>> : k \in DOMAIN d}]
jsonNull      == [type |-> "null", members |-> {}]

\* What json.load builds from a JSON object: the dict of its members.
jsonLoad(j) ==
    [k \in {m[1] : m \in j.members} |-> (CHOOSE m \in j.members : m[1] = k)[2]]

\* No record has been written.
NoFile == [written |-> FALSE, flatten |-> FALSE,
           _map_prim_norm |-> jsonNull, _remappingIndex |-> jsonNull]

\* The record with its two attributes (flatten: how it was written, which
\* the text of the record does not hold).
Record(flatten, m, idx) ==
    [written |-> TRUE, flatten |-> flatten,
     _map_prim_norm |-> m, _remappingIndex |-> idx]

\* write_toJson writing an index of None as the empty object.
write_toJson_noneAsEmpty(m, idx, flatten) ==
    IF flatten
    THEN {IF r.exc = NoExc
          THEN [exc |-> NoExc,
                file |-> Record(TRUE, jsonObject(r.val.val), jsonObject(<<>>))]
          ELSE [exc |-> r.exc, file |-> NoFile] : r \in getMap(m, idx, TRUE)}
    ELSE {[exc |-> NoExc,
           file |-> Record(FALSE, jsonObject(m), jsonObject(idx.items))]}

\* write_toJson flattening the names map and writing the index with it.
write_toJson_keepIndex(m, idx, flatten) ==
    IF flatten
    THEN {IF r.exc = NoExc
          THEN [exc |-> NoExc,
                file |-> Record(TRUE, jsonObject(r.val.val),
                                IF idx.none THEN jsonNull ELSE jsonObject(idx.items))]
          ELSE [exc |-> r.exc, file |-> NoFile] : r \in getMap(m, idx, TRUE)}
    ELSE {[exc |-> NoExc,
           file |-> Record(FALSE, jsonObject(m),
                           IF idx.none THEN jsonNull ELSE jsonObject(idx.items))]}

\* write_toJson(filename, flatten): the exception raised and the record
\* written.  With flatten the names map written is getMap() and the index
\* the empty dict; a getMap() that raises ends the call before the file is
\* opened.
write_toJson(m, idx, flatten) ==
    IF flatten
    THEN {IF r.exc = NoExc
          THEN [exc |-> NoExc,
                file |-> Record(TRUE, jsonObject(r.val.val), jsonObject(<<>>))]
          ELSE [exc |-> r.exc, file |-> NoFile] : r \in getMap(m, idx, TRUE)}
    ELSE {[exc |-> NoExc,
           file |-> Record(FALSE, jsonObject(m),
                           IF idx.none THEN jsonNull ELSE jsonObject(idx.items))]}

\* read_NamesMap_fromJson(filepath, normalizationFunc): the warning issued
\* and the fields of the instance built from the record.
read_NamesMap_fromJson(f, fn) ==
    [warned            |-> IF fn = "None" THEN {{"normalizationFunc"}} ELSE {},
     map_prim_norm     |-> jsonLoad(f._map_prim_norm),
     remappingIndex    |-> IF f._remappingIndex.type = "null" THEN NoneIndex
                           ELSE Dict(jsonLoad(f._remappingIndex)),
     normalizationFunc |-> fn]

---------------------------------------------------------------------------
(* Construction *)

\* NamesMap(names, normalizationFunc)
InitFromNames ==
    \E names \in SUBSET Prims :
        /\ map_prim_norm = [p \in names |-> normalize("f", p)]
        /\ remappingIndex = NoneIndex
        /\ normalizationFunc = "f"
        /\ origin = "names"
        /\ shared = FALSE

\* NamesMap(names, normalizationFunc, remappingIndex=d): the index is the
\* caller's dict d itself, not a copy of it.
InitWithIndex ==
    \E d \in AllDicts :
        /\ map_prim_norm = [p \in Prims |-> normalize("f", p)]
        /\ remappingIndex = Dict(d)
        /\ normalizationFunc = "f"
        /\ origin = "loaded"
        /\ shared = TRUE

\* read_NamesMap_fromJson(filepath, normalizationFunc), and the constructor
\* given _map_prim_norm and _remappingIndex as dicts the caller keeps no
\* reference to: both maps are taken as they come.
InitLoaded ==
    \E m \in AllMaps, d \in AllDicts, isNull \in BOOLEAN, fn \in {"None", "f"} :
        /\ isNull => d = <<>>
        /\ map_prim_norm = m
        /\ remappingIndex = IF isNull THEN NoneIndex ELSE Dict(d)
        /\ normalizationFunc = fn
        /\ origin = "loaded"
        /\ shared = FALSE

Init ==
    /\ InitFromNames \/ InitWithIndex \/ InitLoaded
    /\ op = "idle"
    /\ arg = <<>>
    /\ ret = NoValue
    /\ exc = NoExc
    /\ warned = {}
    /\ file = NoFile

---------------------------------------------------------------------------
(* Operations *)

\* nm._getRef(n)
GetRef ==
    /\ op = "idle"
    /\ \E n \in Names :
        LET r == _getRef(remappingIndex, n) IN
        /\ op' = "_getRef"
        /\ arg' = <<n>>
        /\ exc' = r.exc
        /\ ret' = IF r.exc = NoExc THEN Value("str", r.val) ELSE NoValue
        /\ warned' = {}
        /\ UNCHANGED <<map_prim_norm, remappingIndex, normalizationFunc, origin,
                         shared, file>>

\* nm.getInconsistencies(prettyPrint)
GetInconsistencies ==
    /\ op = "idle"
    /\ \E prettyPrint \in BOOLEAN :
        LET r == getInconsistencies(remappingIndex, prettyPrint) IN
        /\ op' = "getInconsistencies"
        /\ arg' = <<prettyPrint>>
        /\ exc' = r.exc
        /\ ret' = r.val
        /\ warned' = {}
        /\ UNCHANGED <<map_prim_norm, remappingIndex, normalizationFunc, origin,
                         shared, file>>

\* nm.getMap(remap)
GetMap ==
    /\ op = "idle"
    /\ \E withRemap \in BOOLEAN :
        \E r \in getMap(map_prim_norm, remappingIndex, withRemap) :
            /\ op' = "getMap"
            /\ arg' = <<withRemap>>
            /\ exc' = r.exc
            /\ ret' = r.val
            /\ warned' = {}
            /\ UNCHANGED <<map_prim_norm, remappingIndex, normalizationFunc, origin,
                         shared, file>>

\* nm.remap(remaps, fromScratch)
Remap ==
    /\ op = "idle"
    /\ \E remaps \in Batches, fromScratch \in BOOLEAN :
        LET r == remap(remappingIndex, remaps, fromScratch) IN
        /\ op' = "remap"
        /\ arg' = <<remaps, fromScratch>>
        /\ warned' = r.warned
        /\ remappingIndex' = r.idx
        /\ exc' = r.exc
        /\ ret' = r.val
        /\ shared' = (shared /\ ~fromScratch)
        /\ UNCHANGED <<map_prim_norm, normalizationFunc, origin, file>>

\* nm.setEndpoint(key)
SetEndpoint ==
    /\ op = "idle"
    /\ \E key \in Names :
        LET r == setEndpoint(remappingIndex, key) IN
        /\ op' = "setEndpoint"
        /\ arg' = <<key>>
        /\ warned' = {}
        /\ exc' = r.exc
        /\ ret' = r.val
        /\ remappingIndex' = r.idx
        /\ UNCHANGED <<map_prim_norm, normalizationFunc, origin, shared, file>>

\* nm.addNames(names, normalizationFunc, updateExistingKeys)
AddNames ==
    /\ op = "idle"
    /\ \E names \in SUBSET Prims, fn \in {"None", "g"}, updateExistingKeys \in BOOLEAN :
        LET r == addNames(map_prim_norm, normalizationFunc, names, fn,
                          updateExistingKeys)
        IN  /\ op' = "addNames"
            /\ arg' = <<names, fn, updateExistingKeys>>
            /\ warned' = {}
            /\ exc' = r.exc
            /\ ret' = IF r.exc = NoExc THEN PyNone ELSE NoValue
            /\ map_prim_norm' = r.map
            /\ UNCHANGED <<remappingIndex, normalizationFunc, origin, shared, file>>

\* nm.write_toJson(filename, flatten)
WriteToJson ==
    /\ op = "idle"
    /\ \E flatten \in BOOLEAN :
        \E r \in write_toJson(map_prim_norm, remappingIndex, flatten) :
            /\ op' = "write_toJson"
            /\ arg' = <<flatten>>
            /\ warned' = {}
            /\ exc' = r.exc
            /\ ret' = IF r.exc = NoExc THEN PyNone ELSE NoValue
            /\ file' = r.file
            /\ UNCHANGED <<map_prim_norm, remappingIndex, normalizationFunc, origin,
                           shared>>

\* read_NamesMap_fromJson(filepath, normalizationFunc) of the record just
\* written: from here on the model follows the instance it returns.
ReadFromJson ==
    /\ op = "write_toJson"
    /\ file.written
    /\ \E fn \in {"None", "f"} :
        LET nm == read_NamesMap_fromJson(file, fn) IN
        /\ op' = "read_NamesMap_fromJson"
        /\ arg' = <<fn>>
        /\ warned' = nm.warned
        /\ exc' = NoExc
        /\ ret' = Value("NamesMap", "nm")
        /\ map_prim_norm' = nm.map_prim_norm
        /\ remappingIndex' = nm.remappingIndex
        /\ normalizationFunc' = nm.normalizationFunc
        /\ origin' = "loaded"
        /\ shared' = FALSE
        /\ UNCHANGED file

\* The caller writes to the dict it handed to the constructor, d[k] = v, or
\* deletes from it, del d[k]: it is the dict the instance has as its index.
CallerMutatesIndex ==
    /\ op = "idle"
    /\ shared
    /\ \/ \E k \in Names, v \in Names :
              /\ arg' = <<"setitem", k, v>>
              /\ remappingIndex' = Dict(SetItem(remappingIndex.items, k, v))
       \/ \E k \in DOMAIN remappingIndex.items :
              /\ arg' = <<"delitem", k>>
              /\ remappingIndex' = Dict(Pop(remappingIndex.items, k))
    /\ op' = "caller"
    /\ ret' = NoValue
    /\ exc' = NoExc
    /\ warned' = {}
    /\ UNCHANGED <<map_prim_norm, normalizationFunc, origin, shared, file>>

\* The caller writes to the dict getMap has returned, m[p] = n: it is a
\* deep copy, no field of the instance.
CallerMutatesResult ==
    /\ op = "getMap"
    /\ ret.kind = "dict"
    /\ \E p \in Prims, n \in Names :
           /\ arg' = <<"setitem", p, n>>
           /\ ret' = Value("dict", SetItem(ret.val, p, n))
    /\ op' = "caller"
    /\ exc' = NoExc
    /\ warned' = {}
    /\ UNCHANGED <<map_prim_norm, remappingIndex, normalizationFunc, origin,
                   shared, file>>

\* The caller has looked at the outcome of the call; the instance is ready
\* for the next one.
Return ==
    /\ op # "idle"
    /\ op' = "idle"
    /\ arg' = <<>>
    /\ ret' = NoValue
    /\ exc' = NoExc
    /\ warned' = {}
    /\ file' = NoFile
    /\ UNCHANGED <<map_prim_norm, remappingIndex, normalizationFunc, origin, shared>>

Next ==
    \/ GetRef
    \/ GetInconsistencies
    \/ GetMap
    \/ Remap
    \/ SetEndpoint
    \/ AddNames
    \/ WriteToJson
    \/ ReadFromJson
    \/ CallerMutatesIndex
    \/ CallerMutatesResult
    \/ Return

Spec == Init /\ [][Next]_vars

---------------------------------------------------------------------------
(* Chains of the remapping index, stated without the loop of _getRef. *)

Size(d) == Cardinality(DOMAIN d)

\* The name j references away from n (a name without an entry is where the
\* chain stays).
RECURSIVE Hop(_, _, _)
Hop(d, n, j) ==
    IF j = 0 THEN n
    ELSE LET m == Hop(d, n, j - 1) IN IF m \in DOMAIN d THEN d[m] ELSE m

\* The chain of n has k entries and ends at a name without an entry.
HasLength(d, n, k) ==
    /\ \A i \in 0..(k - 1) : Hop(d, n, i) \in DOMAIN d
    /\ Hop(d, n, k) \notin DOMAIN d

\* After j references from n the chain is at a name it has been at.
RepeatsAt(d, n, j) ==
    /\ \A i \in 0..(j - 1) : Hop(d, n, i) \in DOMAIN d
    /\ \E i \in 0..(j - 1) : Hop(d, n, i) = Hop(d, n, j)

\* The chain of n comes back to a name it has been at.
Revisits(d, n) == \E j \in 1..Size(d) : RepeatsAt(d, n, j)

\* n and the names after it, up to and with the first one seen twice.
LoopChain(d, n) ==
    LET j == CHOOSE x \in 1..Size(d) :
                 RepeatsAt(d, n, x) /\ \A y \in 1..(x - 1) : ~RepeatsAt(d, n, y)
    IN  [i \in 1..(j + 1) |-> Hop(d, n, i - 1)]

\* The entries of the index (none when it is None).
Entries(idx) == IF idx.none THEN <<>> ELSE idx.items

---------------------------------------------------------------------------
(* Claims *)

\* C1: on an index that is a dict, _getRef(n) of a name whose chain has k
\* entries and ends at a name without an entry (k = 0: n has no entry)
\* returns the name k references away from n, after exactly k passes of its
\* loop, and that name has no entry in the index.
C1_ResolveFollowsChain ==
    (op = "_getRef" /\ ~remappingIndex.none) =>
        LET d == remappingIndex.items
            n == arg[1]
        IN  \A k \in 0..Size(d) :
                HasLength(d, n, k) =>
                    /\ exc = NoExc
                    /\ ret = Value("str", Hop(d, n, k))
                    /\ ret.val \notin DOMAIN d
                    /\ Len(_getRef(remappingIndex, n).chain) = k

\* C1 witness: _getRef has returned the end of a chain of two entries.
C1_Witness ==
    /\ op = "_getRef"
    /\ ~remappingIndex.none
    /\ HasLength(remappingIndex.items, arg[1], 2)
    /\ exc = NoExc
    /\ ret = Value("str", "c")

\* C2: on an index that is a dict, _getRef(n) of a name whose chain comes
\* back to a name it has been at returns nothing: it raises the RuntimeError
\* "Loopback detected" with n and the chain from n up to and with the first
\* repeated name, a chain of at most (number of entries) + 1 names.
C2_ResolveRaisesOnLoop ==
    (op = "_getRef" /\ ~remappingIndex.none) =>
        LET d == remappingIndex.items
            n == arg[1]
        IN  Revisits(d, n) =>
                /\ ret = NoValue
                /\ exc = Raised("RuntimeError",
                                <<"Loopback detected", n, LoopChain(d, n)>>)
                /\ Len(exc.args[3]) <= Size(d) + 1

\* C2 witness: _getRef has raised for a name that leads into a loop it is
\* not on.
C2_Witness ==
    /\ op = "_getRef"
    /\ ~remappingIndex.none
    /\ Revisits(remappingIndex.items, arg[1])
    /\ exc.type = "RuntimeError"
    /\ exc.args[3] = <<"c", "a", "b", "a">>

\* C3: whenever no value of the names map has a chain that comes back to a
\* name (so on every index without a loop, and on an instance never
\* remapped), getMap(remap=True) returns a map with the keys of the names
\* map in which each primitive has the name at the end of the chain of its
\* normalized name, however many references away.
C3_ResolvedViewIsEndpoints ==
    (op = "getMap" /\ arg[1]) =>
        LET d == Entries(remappingIndex) IN
        (\A p \in DOMAIN map_prim_norm : ~Revisits(d, map_prim_norm[p])) =>
            /\ exc = NoExc
            /\ ret.kind = "dict"
            /\ DOMAIN ret.val = DOMAIN map_prim_norm
            /\ \A p \in DOMAIN map_prim_norm :
                   /\ ret.val[p] \notin DOMAIN d
                   /\ \E k \in 0..Size(d) :
                          /\ HasLength(d, map_prim_norm[p], k)
                          /\ ret.val[p] = Hop(d, map_prim_norm[p], k)

\* C3 witness: two primitives with different normalized names, one of them
\* two references from the end, both resolved to the same name.
C3_Witness ==
    /\ op = "getMap"
    /\ arg[1]
    /\ map_prim_norm = [p \in Prims |-> normalize("f", p)]
    /\ Entries(remappingIndex) = [n \in {"a", "b"} |-> IF n = "a" THEN "b" ELSE "c"]
    /\ ret = Value("dict", [p \in Prims |-> "c"])

\* C4: getMap(remap=True) on an index in which the chain of some value of
\* the names map comes back to a name raises the RuntimeError "Loopback
\* detected", returns no map, and leaves the names map and the index as
\* they were.
C4_ResolvedViewFailsClosed ==
    [][ ( /\ op' = "getMap"
          /\ arg'[1]
          /\ ~remappingIndex.none
          /\ \E p \in DOMAIN map_prim_norm :
                 Revisits(remappingIndex.items, map_prim_norm[p]) )
        => ( /\ exc'.type = "RuntimeError"
             /\ exc'.args[1] = "Loopback detected"
             /\ ret' = NoValue
             /\ map_prim_norm' = map_prim_norm
             /\ remappingIndex' = remappingIndex ) ]_vars

\* C4 witness: getMap has raised on a names map of which one value is on a
\* loop and another resolves.
C4_Witness ==
    /\ op = "getMap"
    /\ arg[1]
    /\ exc.type = "RuntimeError"
    /\ ret = NoValue
    /\ \E p, q \in DOMAIN map_prim_norm :
           /\ Revisits(Entries(remappingIndex), map_prim_norm[p])
           /\ ~Revisits(Entries(remappingIndex), map_prim_norm[q])
           /\ map_prim_norm[q] \in DOMAIN Entries(remappingIndex)

\* C5: in every state getInconsistencies() raises nothing; it returns None
\* exactly when no key of the index has a chain that comes back to a name,
\* and otherwise what it returns holds, for every such key and for no other,
\* the key and the chain _getRef raised with.
C5_InconsistenciesScanAll ==
    (op = "getInconsistencies") =>
        LET d   == Entries(remappingIndex)
            bad == {k \in DOMAIN d : Revisits(d, k)}
        IN  /\ exc = NoExc
            /\ (ret = PyNone) <=> (bad = {})
            /\ (ret # PyNone) =>
                   ret.val = {<<"Loopback detected", k, LoopChain(d, k)>> : k \in bad}

\* C6: remap raises nothing, whatever loops the tuples make, and returns
\* the check of the index it leaves: None exactly when no key of that index
\* has a chain that comes back to a name, and otherwise the keys that have,
\* each with its chain.  After remap([(A,B),(B,A)]), A # B, the value
\* returned is not None and names A or B, and _getRef(A) raises.
C6_RemapReturnsCheckOfNewIndex ==
    (op = "remap") =>
        LET d   == Entries(remappingIndex)
            bad == {k \in DOMAIN d : Revisits(d, k)}
        IN  /\ exc = NoExc
            /\ ~remappingIndex.none
            /\ (ret # PyNone) <=> (bad # {})
            /\ (ret # PyNone) =>
                   ret.val = {<<"Loopback detected", k, LoopChain(d, k)>> : k \in bad}
            /\ \A A, B \in Names :
                   (A # B /\ arg[1] = <<<<A, B>>, <<B, A>>>>) =>
                       /\ ret # PyNone
                       /\ \E e \in ret.val : e[2] \in {A, B}
                       /\ _getRef(remappingIndex, A).exc.type = "RuntimeError"

\* C6 witness: remap([(a,b),(b,a)]) has returned a report.
C6_Witness ==
    /\ op = "remap"
    /\ arg[1] = <<<<"a", "b">>, <<"b", "a">>>>
    /\ exc = NoExc
    /\ ret # PyNone
    /\ \E e \in ret.val : e[3] = <<"a", "b", "a">>

(* The tuples of a batch. *)

Sources(remaps) == {remaps[i][1] : i \in 1..Len(remaps)}

\* The sources that come more than once.
Repeated(remaps) ==
    {s \in Sources(remaps) :
        \E i, j \in 1..Len(remaps) : i < j /\ remaps[i][1] = s /\ remaps[j][1] = s}

\* The target of the last tuple whose source is s.
LastTarget(remaps, s) ==
    remaps[CHOOSE i \in 1..Len(remaps) :
               /\ remaps[i][1] = s
               /\ \A j \in (i + 1)..Len(remaps) : remaps[j][1] # s][2]

C8_NoSelfLoops ==
    /\ (origin = "names") =>
           \A k \in DOMAIN Entries(remappingIndex) : Entries(remappingIndex)[k] # k
    /\ (op = "remap") =>
           \A X \in Names :
               (arg[1] = <<<<X, X>>>>) => X \notin DOMAIN Entries(remappingIndex)

\* C8 witness: remap([(a,a)]) on an instance built from names has left an
\* index with other entries and none for a.
C8_Witness ==
    /\ op = "remap"
    /\ origin = "names"
    /\ arg = <<<<<<"a", "a">>>>, FALSE>>
    /\ DOMAIN Entries(remappingIndex) = {"b", "c"}

\* C9: remap([]) leaves the names map and the entries of the index as they
\* were, in every state.
C9_EmptyRemapChangesNothing ==
    [][ (op' = "remap" /\ arg' = <<<<>>, FALSE>>)
        => ( /\ map_prim_norm' = map_prim_norm
             /\ Entries(remappingIndex') = Entries(remappingIndex) ) ]_vars

\* C10: remap(remaps, fromScratch) leaves the names map as it was; with
\* fromScratch set the index it leaves is the one the same tuples give on
\* an empty index, its keys among their sources; without it every entry the
\* index had under a key that is no source is still there.
C10_FromScratchAndFrame ==
    [][ (op' = "remap") =>
          LET remaps == arg'[1]
              d      == Entries(remappingIndex)
              d2     == Entries(remappingIndex')
          IN  /\ map_prim_norm' = map_prim_norm
              /\ arg'[2] =>
                     /\ DOMAIN d2 \subseteq Sources(remaps)
                     /\ remappingIndex' = remap(Dict(<<>>), remaps, TRUE).idx
              /\ ~arg'[2] =>
                     \A k \in DOMAIN d \ Sources(remaps) :
                         k \in DOMAIN d2 /\ d2[k] = d[k] ]_vars

\* C11: setEndpoint(key), on an index that holds an entry for key, raises
\* nothing and returns the name that entry gave; the index it leaves has
\* every other entry as it was and none for key, so that _getRef(key) is
\* key; the names map is as it was.
C11_SetEndpointRemovesOneEntry ==
    [][ ( /\ op' = "setEndpoint"
          /\ arg'[1] \in DOMAIN Entries(remappingIndex) ) =>
          LET key == arg'[1]
              d   == remappingIndex.items
              r   == _getRef(remappingIndex', key)
          IN  /\ exc' = NoExc
              /\ ret' = Value("str", d[key])
              /\ ~remappingIndex'.none
              /\ DOMAIN remappingIndex'.items = DOMAIN d \ {key}
              /\ \A k \in DOMAIN d \ {key} : remappingIndex'.items[k] = d[k]
              /\ r.exc = NoExc /\ r.val = key
              /\ map_prim_norm' = map_prim_norm ]_vars

\* setEndpoint("a") has returned "b" and left the entries of b and c, both
\* pointing at a, on a names map with both primitives.
C11_Witness ==
    /\ op = "setEndpoint"
    /\ arg = <<"a">>
    /\ exc = NoExc
    /\ ret = Value("str", "b")
    /\ remappingIndex = Dict([n \in {"b", "c"} |-> "a"])
    /\ DOMAIN map_prim_norm = Prims

\* C12: addNames(names, g, updateExistingKeys) with a function g of its own
\* raises nothing and never changes the index.  Without updateExistingKeys
\* every primitive the names map held keeps its normalized name, also where
\* g gives another one, and each given name the map did not hold gets
\* g(name); with updateExistingKeys every given name gets g(name) and the
\* others keep theirs.  getMap(remap=False) returns the names map as it is,
\* so what it shows for a primitive is the function of its first insertion.
C12_AddNamesKeepsExisting ==
    [][ /\ (op' = "addNames" /\ arg'[2] # "None") =>
              LET names == arg'[1]
                  g     == arg'[2]
                  m     == map_prim_norm
                  m2    == map_prim_norm'
              IN  /\ exc' = NoExc
                  /\ remappingIndex' = remappingIndex
                  /\ DOMAIN m2 = DOMAIN m \cup names
                  /\ \A p \in DOMAIN m \ names : m2[p] = m[p]
                  /\ \A p \in names \ DOMAIN m : m2[p] = normalize(g, p)
                  /\ \A p \in names \cap DOMAIN m :
                         m2[p] = IF arg'[3] THEN normalize(g, p) ELSE m[p]
        /\ (op' = "addNames") => remappingIndex' = remappingIndex
        /\ (op' = "getMap" /\ ~arg'[1]) =>
              /\ exc' = NoExc
              /\ ret' = Value("dict", map_prim_norm) ]_vars

\* addNames(["p1", "p2"], g, False) on a map that held p1 alone, under f:
\* p1 keeps f(p1) = "a" though g(p1) = "b", p2 gets g(p2) = "c".
C12_Witness ==
    /\ op = "addNames"
    /\ arg = <<Prims, "g", FALSE>>
    /\ exc = NoExc
    /\ origin = "names"
    /\ map_prim_norm = [p \in Prims |-> IF p = "p1" THEN "a" ELSE "c"]

\* C13: on an instance without a normalization function, addNames called
\* without one of its own raises an exception and leaves the names map and
\* the index as they were.
C13_AddNamesWithoutFunctionFails ==
    [][ ( /\ op' = "addNames"
          /\ normalizationFunc = "None"
          /\ arg'[2] = "None" ) =>
          /\ exc' # NoExc
          /\ map_prim_norm' = map_prim_norm
          /\ remappingIndex' = remappingIndex ]_vars

\* C14: write_toJson(flatten=False) raises nothing, writes a record and
\* leaves the names map and the index as they were; the instance
\* read_NamesMap_fromJson builds from that record has the same names map
\* and the same index (None where it was None), and so the same getMap()
\* outcomes and the same _getRef outcome for every name.
C14_RoundTrip ==
    [][ /\ (op' = "write_toJson" /\ ~arg'[1]) =>
              /\ exc' = NoExc
              /\ file'.written
              /\ map_prim_norm' = map_prim_norm
              /\ remappingIndex' = remappingIndex
        /\ (op' = "read_NamesMap_fromJson" /\ ~file.flatten) =>
              /\ map_prim_norm' = map_prim_norm
              /\ remappingIndex' = remappingIndex
              /\ \A withRemap \in BOOLEAN :
                     getMap(map_prim_norm', remappingIndex', withRemap)
                         = getMap(map_prim_norm, remappingIndex, withRemap)
              /\ \A n \in Names :
                     _getRef(remappingIndex', n) = _getRef(remappingIndex, n) ]_vars

\* An instance built from names, its index still None, has been written
\* without flatten and read back: the index is None again.
C14_Witness ==
    /\ op = "read_NamesMap_fromJson"
    /\ ~file.flatten
    /\ remappingIndex = NoneIndex
    /\ map_prim_norm = [p \in Prims |-> normalize("f", p)]

\* C15: write_toJson(flatten=True) leaves the names map and the index as
\* they were and, where no chain of the index loops, raises nothing and
\* writes a record; the instance read from that record has the empty dict
\* as its index and the original's getMap(remap=True) as its names map, so
\* that its getMap(remap=True) and getMap(remap=False) both return what the
\* original's getMap(remap=True) returns.
C15_Flatten ==
    [][ /\ (op' = "write_toJson" /\ arg'[1]) =>
              /\ map_prim_norm' = map_prim_norm
              /\ remappingIndex' = remappingIndex
              /\ (\A n \in Names : ~Revisits(Entries(remappingIndex), n)) =>
                     exc' = NoExc /\ file'.written
        /\ (op' = "read_NamesMap_fromJson" /\ file.flatten) =>
              /\ remappingIndex' = Dict(<<>>)
              /\ \A r \in getMap(map_prim_norm, remappingIndex, TRUE) :
                     /\ r.exc = NoExc
                     /\ map_prim_norm' = r.val.val
                     /\ getMap(map_prim_norm', remappingIndex', TRUE) = {r}
                     /\ getMap(map_prim_norm', remappingIndex', FALSE) = {r} ]_vars

\* A record written with flatten has been read: the index is empty and
\* both primitives are under "c", a name no normalization function of the
\* model gives p1.
C15_Witness ==
    /\ op = "read_NamesMap_fromJson"
    /\ file.flatten
    /\ origin = "loaded"
    /\ remappingIndex = Dict(<<>>)
    /\ map_prim_norm = [p \in Prims |-> "c"]

\* C16: the names map and the index change only in a call of remap,
\* setEndpoint or addNames of the instance (read_NamesMap_fromJson builds
\* another instance), never through what the caller does with a dict it got
\* from getMap or handed to the constructor; and no call of the instance
\* changes a dict the caller handed in.
C16_ExclusiveOwnership ==
    [][ /\ (map_prim_norm' # map_prim_norm \/ remappingIndex' # remappingIndex) =>
               op' \in {"remap", "setEndpoint", "addNames", "read_NamesMap_fromJson"}
        /\ (shared /\ shared' /\ op' # "caller") =>
               remappingIndex' = remappingIndex ]_vars

\* k is on a loop of d: following the entries from k comes back to k.
OnLoop(d, k) ==
    \E j \in 1..Size(d) :
        /\ \A i \in 0..(j - 1) : Hop(d, k, i) \in DOMAIN d
        /\ Hop(d, k, j) = k

\* The chain of n gets to k.
Reaches(d, n, k) ==
    \E j \in 0..Size(d) :
        /\ \A i \in 0..(j - 1) : Hop(d, n, i) \in DOMAIN d
        /\ Hop(d, n, j) = k

\* C17: setEndpoint(k) for a key k on a loop of the index raises nothing;
\* afterwards _getRef of every name whose chain got to k (the names on the
\* loop and the names leading into it) returns k, no such name is a key of
\* the loopback report, and if every looping chain got to k the report is
\* None (getInconsistencies returns None) and getMap(remap=True) raises
\* nothing.
C17_SetEndpointBreaksLoop ==
    [][ ( /\ op' = "setEndpoint"
          /\ OnLoop(Entries(remappingIndex), arg'[1]) ) =>
          LET k    == arg'[1]
              d    == Entries(remappingIndex)
              idx2 == remappingIndex'
          IN  /\ exc' = NoExc
              /\ \A n \in Names :
                     Reaches(d, n, k) =>
                         /\ _getRef(idx2, n).exc = NoExc
                         /\ _getRef(idx2, n).val = k
                         /\ LET lb == _get_loopback_inconsistencies(idx2) IN
                                \/ lb.val = PyNone
                                \/ \A e \in lb.val.val : e[2] # n
              /\ (\A n \in Names : Revisits(d, n) => Reaches(d, n, k)) =>
                     /\ \A prettyPrint \in BOOLEAN :
                            getInconsistencies(idx2, prettyPrint)
                                = [exc |-> NoExc, val |-> PyNone]
                     /\ \A r \in getMap(map_prim_norm', idx2, TRUE) :
                            r.exc = NoExc /\ r.val.kind = "dict" ]_vars

\* setEndpoint("a") has returned "b" and left b -> a and c -> b: before it
\* a and b were on a loop and c led into it; now all three end at a.
C17_Witness ==
    /\ op = "setEndpoint"
    /\ arg = <<"a">>
    /\ exc = NoExc
    /\ ret = Value("str", "b")
    /\ remappingIndex = Dict([n \in {"b", "c"} |-> IF n = "b" THEN "a" ELSE "b"])
    /\ DOMAIN map_prim_norm = Prims

===========================================================================
